---- MODULE Spec2Model ----
(***************************************************************************)
(* Model of main.py: the quote cache, the Yahoo and Stooq fetchers and the *)
(* two request handlers stock_quote and batch_quotes, run as concurrent    *)
(* coroutines that interleave at every awaited HTTP call.                  *)
(***************************************************************************)
EXTENDS Integers, Sequences, FiniteSets, TLC

\* ---------------------------------------------------------------- bounds
NumReqs == 2        \* concurrent requests
MaxBatch == 2       \* comma-separated entries of one batch request
MaxItems == 2       \* entries of one upstream response body
MaxTicks == 2       \* clock advances
TickStep == 30      \* seconds per clock advance

\* ------------------------------------------------------ program constants
TTL == 60
MaxAttempts == 4
RETRYABLE == {429, 500, 502, 503, 504}

\* ------------------------------------------------------------ input sets
Reqs == 1..NumReqs
Symbols == {"A", "B"}              \* upper-cased ticker symbols
RawTickers == {"a", "B"}           \* path parameter of /stock/{ticker}
RawTokens == {"", " ", "a", "B"}   \* pieces of the symbols query between commas
PriceVals == {0, 1}                \* numeric prices an upstream may report
StatusCodes == {200, 429, 503, 404}
None == <<>>

\* ------------------------------------------------------- string helpers
\* str.upper() on the strings of the model
Upper(s) ==
  CASE s = "a" -> "A"
    [] s = "b" -> "B"
    [] s = "a.us" -> "A.US"
    [] s = "b.us" -> "B.US"
    [] OTHER -> s

\* str.lower() on the strings of the model
Lower(s) ==
  CASE s = "A" -> "a"
    [] s = "B" -> "b"
    [] s = "A.US" -> "a.us"
    [] s = "B.US" -> "b.us"
    [] OTHER -> s

\* str.strip()
Strip(s) == IF s = " " THEN "" ELSE s

\* "." in s
HasDot(s) == s \in {"a.us", "b.us", "A.US", "B.US"}

\* s + ".us" for the dot-less lower-case tickers
AppendUs(s) ==
  CASE s = "a" -> "a.us"
    [] s = "b" -> "b.us"
    [] OTHER -> s

to_stooq_symbol(s) == IF HasDot(Lower(s)) THEN Lower(s) ELSE AppendUs(Lower(s))

\* ------------------------------------------------------- dict helpers
Range(q) == {q[i] : i \in 1..Len(q)}

\* {}
EmptyDict == [k \in {} |-> None]

\* d[k] = v of a Python dict
Put(d, k, v) == [x \in (DOMAIN d) \cup {k} |-> IF x = k THEN v ELSE d[x]]

\* d.get(k)
Get(d, k) == IF k \in DOMAIN d THEN d[k] ELSE None

\* {s: None for s in symbols}
AllNone(symbols) == [s \in Range(symbols) |-> None]

\* [x for x in q if keep(x)]
RECURSIVE Filter(_, _)
Filter(q, keep) ==
  IF q = <<>> THEN <<>>
  ELSE IF Head(q) \in keep THEN <<Head(q)>> \o Filter(Tail(q), keep)
       ELSE Filter(Tail(q), keep)

\* sequences over S of length lo..hi
SeqsOf(S, lo, hi) == UNION {[1..n -> S] : n \in lo..hi}

\* ------------------------------------------------------- upstream replies
\* One entry of quoteResponse.result: kind "num" is a numeric
\* regularMarketPrice, "null" a missing or null one, "bad" one float() rejects.
YahooSyms == {"a", "B"}
YahooItemSet ==
  [symbol : YahooSyms, kind : {"num"}, val : PriceVals]
    \cup [symbol : YahooSyms, kind : {"null", "bad"}, val : {0}]

\* One row of the Stooq CSV: kind "num" is a numeric Close, "nd" the text N/D
\* or a missing column, "bad" any other text.
StooqSyms == {"A.US", "b.us"}
StooqRowSet ==
  [Symbol : StooqSyms, kind : {"num"}, val : PriceVals]
    \cup [Symbol : StooqSyms, kind : {"nd", "bad"}, val : {0}]

\* What client.get(url) can do: raise (transport failure, timeout), or return
\* a status with a body; a 200 body is JSON/CSV of the expected shape or not.
HttpRaise == [kind |-> "raise", status |-> 0, shaped |-> FALSE, items |-> <<>>]
HttpStatus(c) == [kind |-> "status", status |-> c, shaped |-> FALSE, items |-> <<>>]
HttpOk(items) == [kind |-> "status", status |-> 200, shaped |-> TRUE, items |-> items]

YahooReplies ==
  {HttpRaise} \cup {HttpStatus(c) : c \in StatusCodes}
    \cup {HttpOk(b) : b \in SeqsOf(YahooItemSet, 0, MaxItems)}

StooqReplies ==
  {HttpRaise} \cup {HttpStatus(c) : c \in StatusCodes}
    \cup {HttpOk(b) : b \in SeqsOf(StooqRowSet, 0, MaxItems)}

\* ------------------------------------------------------- yahoo_fetch
\* The loop over results of a 200 reply; float(price) raising on a "bad"
\* price ends the loop through the except clause, which returns out as it is.
RECURSIVE YahooResults(_, _)
YahooResults(out, items) ==
  IF items = <<>> THEN out
  ELSE LET item == Head(items)
           sym == Upper(item.symbol)
       IN IF sym # "" /\ item.kind # "null"
          THEN IF item.kind = "bad" THEN out
               ELSE YahooResults(Put(out, sym, <<item.val>>), Tail(items))
          ELSE YahooResults(out, Tail(items))

\* The value yahoo_fetch returns once a reply ends the retry loop.
YahooOut(symbols, reply) ==
  IF reply.status = 200 /\ reply.shaped
  THEN YahooResults(AllNone(symbols), reply.items)
  ELSE AllNone(symbols)

\* ------------------------------------------------------- stooq
RECURSIVE _parse_stooq_csv(_, _)
_parse_stooq_csv(out, rows) ==
  IF rows = <<>> THEN out
  ELSE LET row == Head(rows)
           sym == Upper(row.Symbol)
       IN IF sym # ""
          THEN _parse_stooq_csv(
                 Put(out, sym, IF row.kind = "num" THEN <<row.val>> ELSE None),
                 Tail(rows))
          ELSE _parse_stooq_csv(out, Tail(rows))

\* The value stooq_fetch returns for a reply.
StooqOut(symbols, reply) ==
  IF reply.kind = "status" /\ reply.status = 200 /\ reply.shaped
  THEN LET parsed == _parse_stooq_csv(EmptyDict, reply.items)
       IN [original \in Range(symbols) |->
             Get(parsed, Upper(to_stooq_symbol(original)))]
  ELSE AllNone(symbols)

\* ------------------------------------------------------------- state
VARIABLES
  clock,   \* time.time(), in seconds
  CACHE,   \* ticker -> [price, ts]
  got,     \* ticker -> the time its cached price arrived from the upstream
  rq,      \* request -> the coroutine's position and locals; fetches lists
           \* the fetch functions it has called, each call sending its
           \* first HTTP request; extra tells that yahoo_fetch returned to
           \* a batch a price for a symbol the batch did not pass to it
  fx       \* the record kept by the specifications that follow one fetch
           \* or one pair of requests; Spec leaves it alone

vars == <<clock, CACHE, got, rq, fx>>

NoFx == [pc |-> "none"]

NoResp == [code |-> 0]
Idle ==
  [pc |-> "idle", kind |-> "none", req |-> <<>>, now |-> 0, attempt |-> 0,
   to_fetch |-> <<>>, still |-> <<>>, out |-> EmptyDict, fetches |-> <<>>,
   extra |-> FALSE, resp |-> NoResp]

Init ==
  /\ clock = 0
  /\ CACHE = EmptyDict
  /\ got = EmptyDict
  /\ rq = [r \in Reqs |-> Idle]
  /\ fx = NoFx

\* Fresh with the TTL boundary included
FreshUpToTTL(cache, t, now) == t \in DOMAIN cache /\ (now - cache[t].ts) <= TTL

\* t in CACHE and (now - CACHE[t]["ts"]) < TTL
Fresh(cache, t, now) == t \in DOMAIN cache /\ (now - cache[t].ts) < TTL

\* CacheStore that also restamps the entries it does not write
CacheStoreTouch(cache, ts, vals, now) ==
  [t \in (DOMAIN cache) \cup ts |->
     IF t \in ts THEN [price |-> vals[t][1], ts |-> now]
     ELSE [cache[t] EXCEPT !.ts = now]]

\* CACHE[t] = {"price": vals[t], "ts": now} for every t of ts
CacheStore(cache, ts, vals, now) ==
  [t \in (DOMAIN cache) \cup ts |->
     IF t \in ts THEN [price |-> vals[t][1], ts |-> now] ELSE cache[t]]

GotStore(g, ts) == [t \in (DOMAIN g) \cup ts |-> IF t \in ts THEN clock ELSE g[t]]

\* Priced that takes every symbol the fetch result holds a price for
PricedAny(q, d) == {t \in DOMAIN d : d[t] # None}

\* the fetch result d holds a price for a symbol that is not in q
ExtraPrice(q, d) == \E t \in (DOMAIN d) \ Range(q) : d[t] # None

\* the symbols of q for which the fetch result d holds a price
Priced(q, d) == {t \in Range(q) : Get(d, t) # None}

\* BatchReturn that reports only the symbols it has a price for
BatchReturnResolved(out, req) ==
  [code |-> 200,
   body |-> [t \in {x \in DOMAIN out : out[x] # None} |-> out[t]]]

\* out.setdefault(t, None) for t in req, then return out
BatchReturn(out, req) ==
  [code |-> 200,
   body |-> [t \in (DOMAIN out) \cup Range(req) |->
               IF t \in DOMAIN out THEN out[t] ELSE None]]

\* An exception nobody catches leaves the handler.
Uncaught == [code |-> 500, detail |-> "exception"]

\* The handler returns or raises: its locals are gone, the response stays.
Done(q, resp) ==
  [q EXCEPT !.pc = "done", !.resp = resp, !.now = 0, !.attempt = 0,
            !.to_fetch = <<>>, !.still = <<>>, !.out = EmptyDict]

\* Request r arrives next: requests are numbered in their order of arrival.
Arrives(r) == rq[r].pc = "idle" /\ \A r2 \in Reqs : r2 < r => rq[r2].pc # "idle"

\* await client.get(url) of yahoo_fetch(symbols), first attempt
CallYahoo(q, symbols) ==
  [q EXCEPT !.pc = "yahoo", !.to_fetch = symbols, !.attempt = 0,
            !.fetches = Append(@, "yahoo")]

\* await client.get(url) of stooq_fetch(symbols)
CallStooq(q, symbols) ==
  [q EXCEPT !.pc = "stooq", !.still = symbols,
            !.fetches = Append(@, "stooq")]

\* ------------------------------------------------------------- clock
Tick ==
  /\ clock < MaxTicks * TickStep
  /\ clock' = clock + TickStep
  /\ UNCHANGED <<CACHE, got, rq, fx>>

\* ------------------------------------------------------------- stock_quote
stock_quote(r, ticker) ==
  /\ Arrives(r)
  /\ LET t == Upper(ticker)
         now == clock
         q == [rq[r] EXCEPT !.kind = "single", !.req = <<t>>, !.now = now]
     IN rq' = [rq EXCEPT ![r] =
                 IF Fresh(CACHE, t, now)
                 THEN Done(q, [code |-> 200, ticker |-> t,
                               price |-> CACHE[t].price, cached |-> TRUE])
                 ELSE CallYahoo(q, <<t>>)]
  /\ UNCHANGED <<clock, CACHE, got, fx>>

\* stock_quote from the return of yahoo_fetch([t]) with y
SingleAfterYahoo(r, y) ==
  LET q == rq[r]
      t == q.req[1]
      price == Get(y, t)
  IN IF price = None
     THEN /\ rq' = [rq EXCEPT ![r] = CallStooq(q, <<t>>)]
          /\ UNCHANGED <<CACHE, got>>
     ELSE /\ CACHE' = CacheStore(CACHE, {t}, y, q.now)
          /\ got' = GotStore(got, {t})
          /\ rq' = [rq EXCEPT ![r] =
                      Done(q, [code |-> 200, ticker |-> t,
                               price |-> price[1], cached |-> FALSE])]

\* stock_quote from the return of stooq_fetch([t]) with s
SingleAfterStooq(r, s) ==
  LET q == rq[r]
      t == q.req[1]
      price == Get(s, t)
  IN IF price = None
     THEN /\ rq' = [rq EXCEPT ![r] =
                      Done(q, [code |-> 502, detail |-> "Price unavailable"])]
          /\ UNCHANGED <<CACHE, got>>
     ELSE /\ CACHE' = CacheStore(CACHE, {t}, s, q.now)
          /\ got' = GotStore(got, {t})
          /\ rq' = [rq EXCEPT ![r] =
                      Done(q, [code |-> 200, ticker |-> t,
                               price |-> price[1], cached |-> FALSE])]

\* ------------------------------------------------------------- batch_quotes
\* ParseSymbols that drops only the empty pieces, not the blank ones
RECURSIVE ParseSymbolsNoStrip(_)
ParseSymbolsNoStrip(tokens) ==
  IF tokens = <<>> THEN <<>>
  ELSE IF Head(tokens) # ""
       THEN <<Upper(Strip(Head(tokens)))>> \o ParseSymbolsNoStrip(Tail(tokens))
       ELSE ParseSymbolsNoStrip(Tail(tokens))

\* [s.strip().upper() for s in symbols.split(",") if s.strip()]
RECURSIVE ParseSymbols(_)
ParseSymbols(tokens) ==
  IF tokens = <<>> THEN <<>>
  ELSE IF Strip(Head(tokens)) # ""
       THEN <<Upper(Strip(Head(tokens)))>> \o ParseSymbols(Tail(tokens))
       ELSE ParseSymbols(Tail(tokens))

\* tokens is symbols.split(","); the empty string splits into <<"">>
batch_quotes(r, tokens) ==
  /\ Arrives(r)
  /\ LET req == ParseSymbols(tokens)
         now == clock
         hits == {t \in Range(req) : Fresh(CACHE, t, now)}
         out == [t \in hits |-> <<CACHE[t].price>>]
         to_fetch == Filter(req, Range(req) \ hits)
         q == [rq[r] EXCEPT !.kind = "batch", !.req = req, !.now = now,
                            !.out = out]
     IN rq' = [rq EXCEPT ![r] =
                 IF tokens = <<"">>
                 THEN Done([rq[r] EXCEPT !.kind = "batch"],
                           [code |-> 400, detail |-> "symbols required"])
                 ELSE IF req = <<>>
                 THEN Done([rq[r] EXCEPT !.kind = "batch"],
                           [code |-> 400, detail |-> "no valid symbols"])
                 ELSE IF to_fetch # <<>>
                 THEN CallYahoo(q, to_fetch)
                 ELSE Done(q, BatchReturn(out, req))]
  /\ UNCHANGED <<clock, CACHE, got, fx>>

\* BatchAfterYahoo that answers with Yahoo's prices without caching them
BatchAfterYahooNoStore(r, y) ==
  LET q == [rq[r] EXCEPT !.extra = ExtraPrice(rq[r].to_fetch, y)]
      have == Priced(q.to_fetch, y)
      still == Filter(q.to_fetch, Range(q.to_fetch) \ have)
      out == [t \in (DOMAIN q.out) \cup have |->
                IF t \in have THEN y[t] ELSE q.out[t]]
      q2 == [q EXCEPT !.out = out]
  IN /\ UNCHANGED <<CACHE, got>>
     /\ rq' = [rq EXCEPT ![r] =
                 IF still # <<>> THEN CallStooq(q2, still)
                 ELSE Done(q2, BatchReturn(out, q.req))]

\* batch_quotes from the return of yahoo_fetch(to_fetch) with y
BatchAfterYahoo(r, y) ==
  LET q == [rq[r] EXCEPT !.extra = ExtraPrice(rq[r].to_fetch, y)]
      have == Priced(q.to_fetch, y)
      still == Filter(q.to_fetch, Range(q.to_fetch) \ have)
      out == [t \in (DOMAIN q.out) \cup have |->
                IF t \in have THEN y[t] ELSE q.out[t]]
      q2 == [q EXCEPT !.out = out]
  IN /\ CACHE' = CacheStore(CACHE, have, y, q.now)
     /\ got' = GotStore(got, have)
     /\ rq' = [rq EXCEPT ![r] =
                 IF still # <<>> THEN CallStooq(q2, still)
                 ELSE Done(q2, BatchReturn(out, q.req))]

\* batch_quotes from the return of stooq_fetch(still) with s
BatchAfterStooq(r, s) ==
  LET q == rq[r]
      have == Priced(q.still, s)
      out == [t \in (DOMAIN q.out) \cup Range(q.still) |->
                IF t \in have THEN s[t]
                ELSE IF t \in Range(q.still) THEN None ELSE q.out[t]]
  IN /\ CACHE' = CacheStore(CACHE, have, s, q.now)
     /\ got' = GotStore(got, have)
     /\ rq' = [rq EXCEPT ![r] =
                 Done([q EXCEPT !.out = out], BatchReturn(out, q.req))]

\* ------------------------------------------------------------- replies
\* YahooStep without the attempt ceiling
YahooStepNoCeiling(symbols, attempt, reply) ==
  IF reply.kind = "raise"
  THEN [tag |-> "raise", out |-> EmptyDict, sleep |-> 0]
  ELSE IF reply.status # 200 /\ reply.status \in RETRYABLE
  THEN [tag |-> "retry", out |-> EmptyDict, sleep |-> 6 * (attempt + 1)]
  ELSE [tag |-> "return", out |-> YahooOut(symbols, reply), sleep |-> 0]

\* YahooStep that retries on every status other than 200
YahooStepRetryAny(symbols, attempt, reply) ==
  IF reply.kind = "raise"
  THEN [tag |-> "raise", out |-> EmptyDict, sleep |-> 0]
  ELSE IF reply.status # 200
  THEN IF attempt + 1 < MaxAttempts
       THEN [tag |-> "retry", out |-> EmptyDict, sleep |-> 6 * (attempt + 1)]
       ELSE [tag |-> "return", out |-> AllNone(symbols),
             sleep |-> 6 * (attempt + 1)]
  ELSE [tag |-> "return", out |-> YahooOut(symbols, reply), sleep |-> 0]

\* Where one reply leaves the retry loop of yahoo_fetch(symbols): client.get
\* raised, the loop goes round again, or the function returns out.
\* sleep is the time.sleep(0.6 * (attempt + 1)) of a retryable status, in
\* tenths of a second; it is slept on the last attempt too.
YahooStep(symbols, attempt, reply) ==
  IF reply.kind = "raise"
  THEN [tag |-> "raise", out |-> EmptyDict, sleep |-> 0]
  ELSE IF reply.status # 200 /\ reply.status \in RETRYABLE
  THEN IF attempt + 1 < MaxAttempts
       THEN [tag |-> "retry", out |-> EmptyDict, sleep |-> 6 * (attempt + 1)]
       ELSE [tag |-> "return", out |-> AllNone(symbols),
             sleep |-> 6 * (attempt + 1)]
  ELSE [tag |-> "return", out |-> YahooOut(symbols, reply), sleep |-> 0]

\* Every way an attempt of yahoo_fetch(symbols) can end, over all replies;
\* tabulated once, by <<symbols, attempt>>.
RECURSIVE YahooStepTable(_)
YahooStepTable(S) ==
  IF S = {} THEN EmptyDict
  ELSE LET k == CHOOSE x \in S : TRUE
       IN (k :> {YahooStep(k[1], k[2], reply) : reply \in YahooReplies})
            @@ YahooStepTable(S \ {k})

YahooSteps ==
  YahooStepTable(SeqsOf(Symbols, 1, MaxBatch) \X (0..(MaxAttempts - 1)))

\* Every value stooq_fetch(symbols) can return, over all replies; tabulated
\* once, by symbols.
RECURSIVE StooqOutTable(_)
StooqOutTable(S) ==
  IF S = {} THEN EmptyDict
  ELSE LET k == CHOOSE x \in S : TRUE
       IN (k :> {StooqOut(k, reply) : reply \in StooqReplies})
            @@ StooqOutTable(S \ {k})

StooqOuts == StooqOutTable(SeqsOf(Symbols, 1, MaxBatch))

\* Request r goes on from an attempt of yahoo_fetch that ended as step.
YahooReplyStep(r, step) ==
  LET q == rq[r]
  IN CASE step.tag = "raise" ->
            /\ rq' = [rq EXCEPT ![r] = Done(q, Uncaught)]
            /\ UNCHANGED <<CACHE, got>>
       [] step.tag = "retry" ->
            /\ rq' = [rq EXCEPT ![r] = [q EXCEPT !.attempt = @ + 1]]
            /\ UNCHANGED <<CACHE, got>>
       [] OTHER ->
            IF q.kind = "single" THEN SingleAfterYahoo(r, step.out)
            ELSE BatchAfterYahoo(r, step.out)

\* Request r goes on from stooq_fetch returning s.
StooqReplyOut(r, s) ==
  IF rq[r].kind = "single" THEN SingleAfterStooq(r, s)
  ELSE BatchAfterStooq(r, s)

\* The awaited client.get of yahoo_fetch completes for request r.
YahooReply(r) ==
  /\ rq[r].pc = "yahoo"
  /\ UNCHANGED <<clock, fx>>
  /\ \E step \in YahooSteps[<<rq[r].to_fetch, rq[r].attempt>>] :
       YahooReplyStep(r, step)

\* The awaited client.get of stooq_fetch completes for request r.
StooqReply(r) ==
  /\ rq[r].pc = "stooq"
  /\ UNCHANGED <<clock, fx>>
  /\ \E s \in StooqOuts[rq[r].still] : StooqReplyOut(r, s)

Next ==
  \/ Tick
  \/ \E r \in Reqs, ticker \in RawTickers : stock_quote(r, ticker)
  \/ \E r \in Reqs, tokens \in SeqsOf(RawTokens, 1, MaxBatch) :
       batch_quotes(r, tokens)
  \/ \E r \in Reqs : YahooReply(r)
  \/ \E r \in Reqs : StooqReply(r)

Spec == Init /\ [][Next]_vars

\* ------------------------------------------------------------- properties
IsSingle(r) == rq[r].kind = "single"
IsBatch(r) == rq[r].kind = "batch"
InFlight(r) == rq[r].pc \in {"yahoo", "stooq"}

\* the symbols request r has an upstream fetch pending for
Pending(r) ==
  CASE rq[r].pc = "yahoo" -> Range(rq[r].to_fetch)
    [] rq[r].pc = "stooq" -> Range(rq[r].still)
    [] OTHER -> {}

\* Request r arrives in this step, Returns in this step.
Arriving(r) == rq[r].pc = "idle" /\ rq'[r].pc # "idle"
Returning(r) == rq[r].pc # "done" /\ rq'[r].pc = "done"

\* In the step request r arrives, it takes t from the cache: it opens no
\* fetch for t and answers with the cached price.
HitOnArrival(r, t) ==
  /\ t \in DOMAIN CACHE
  /\ t \notin Range(rq'[r].to_fetch)
  /\ rq'[r].kind = "single" =>
       rq'[r].resp = [code |-> 200, ticker |-> t, price |-> CACHE[t].price,
                      cached |-> TRUE]
  /\ rq'[r].kind = "batch" =>
       IF rq'[r].pc = "done" THEN rq'[r].resp.body[t] = <<CACHE[t].price>>
       ELSE Get(rq'[r].out, t) = <<CACHE[t].price>>

\* C1: a request for t that arrives strictly less than TTL seconds after the
\* latest successful resolution of t completed is answered with the cached
\* price and sends no upstream call for t, however long that resolution's
\* fetch took.
C1_FreshAfterSuccess ==
  [][\A r \in Reqs : Arriving(r) =>
       \A t \in Range(rq'[r].req) :
         (t \in DOMAIN got /\ clock - got[t] < TTL /\ CACHE[t].price > 0)
           => HitOnArrival(r, t)]_vars

\* C2: at most one upstream fetch per symbol is in flight: two different
\* requests never both have a fetch pending for the same symbol.
C2_OneFetchPerSymbol ==
  \A r1, r2 \in Reqs :
    r1 # r2 => Pending(r1) \cap Pending(r2) = {}

\* C3: two calls to Yahoo by different requests are kept apart by the
\* provider's minGap. A first attempt is sent at the request's arrival time
\* now, so, minGap being positive, two requests on their first attempt did not
\* arrive at the same instant.
C3_RateSpacing ==
  \A r1, r2 \in Reqs :
    (/\ r1 # r2
     /\ rq[r1].pc = "yahoo" /\ rq[r1].attempt = 0
     /\ rq[r2].pc = "yahoo" /\ rq[r2].attempt = 0)
    => rq[r1].now # rq[r2].now

\* the cache holds a valid price for t, fresh or expired
HasEntry(cache, t) == t \in DOMAIN cache /\ cache[t].price > 0

\* C4: a request whose providers all failed for a symbol the cache holds an
\* entry for, even an expired one, answers with the stale price: a
\* single-symbol request does not end in "Price unavailable" and a batch does
\* not report null for it.
C4_StaleFallback ==
  [][\A r \in Reqs : Returning(r) =>
       /\ (rq'[r].kind = "single" /\ rq'[r].resp.code = 502) =>
            ~HasEntry(CACHE', rq'[r].req[1])
       /\ (rq'[r].kind = "batch" /\ rq'[r].resp.code = 200) =>
            \A t \in DOMAIN rq'[r].resp.body :
              rq'[r].resp.body[t] = None => ~HasEntry(CACHE', t)]_vars

\* C5: every cached price is strictly positive, and so is every price a
\* single-symbol request returns.
C5_PositivePrices ==
  /\ \A t \in DOMAIN CACHE : CACHE[t].price > 0
  /\ \A r \in Reqs :
       (rq[r].pc = "done" /\ IsSingle(r) /\ rq[r].resp.code = 200) =>
         rq[r].resp.price > 0

\* C6: the map a batch request returns has exactly the requested upper-cased
\* symbols as its keys, each with a price or null.
C6_BatchComplete ==
  \A r \in Reqs :
    (rq[r].pc = "done" /\ IsBatch(r) /\ rq[r].resp.code = 200) =>
      /\ rq[r].req # <<>>
      /\ DOMAIN rq[r].resp.body = Range(rq[r].req)
      /\ \A t \in Range(rq[r].req) :
           /\ Upper(t) = t /\ Strip(t) = t /\ t # ""
           /\ \/ rq[r].resp.body[t] = None
              \/ \E p \in PriceVals : rq[r].resp.body[t] = <<p>>

\* C6 witness: a returned batch map of two symbols, one of which every
\* provider failed for (null) while the other has a price.
C6_Witness ==
  \E r \in Reqs :
    /\ rq[r].pc = "done" /\ IsBatch(r) /\ rq[r].resp.code = 200
    /\ rq[r].req = <<"A", "B">>
    /\ rq[r].fetches = <<"yahoo", "stooq">>
    /\ rq[r].resp.body["A"] = None
    /\ rq[r].resp.body["B"] = <<1>>

\* C7: a batch request with at least one valid symbol always ends by
\* returning its map, whatever the upstream calls do.
C7_BatchNeverAborts ==
  \A r \in Reqs :
    (rq[r].pc = "done" /\ IsBatch(r) /\ rq[r].req # <<>>) =>
      rq[r].resp.code = 200

\* C8: Yahoo is tried first and Stooq only after it for what Yahoo gave no
\* price for, and a single-symbol answer whose price came from Stooq after
\* Yahoo failed names provider 2 as its source.
C8_FallbackOrder ==
  \A r \in Reqs :
    /\ rq[r].fetches \in {<<>>, <<"yahoo">>, <<"yahoo", "stooq">>}
    /\ rq[r].pc = "stooq" => Range(rq[r].still) \subseteq Range(rq[r].to_fetch)
    /\ (/\ rq[r].pc = "done" /\ IsSingle(r) /\ rq[r].resp.code = 200
        /\ rq[r].fetches = <<"yahoo", "stooq">> /\ rq[r].resp.price > 0) =>
         /\ "source" \in DOMAIN rq[r].resp
         /\ rq[r].resp.source = "stooq"

\* C9: a single-symbol request that missed the cache never ends in an
\* uncaught exception, and ends in "Price unavailable" only after Stooq was
\* queried too.
C9_ChainNeverAborted ==
  \A r \in Reqs :
    (rq[r].pc = "done" /\ IsSingle(r)) =>
      /\ rq[r].resp.code # 500
      /\ rq[r].resp.code # 200 => rq[r].fetches = <<"yahoo", "stooq">>

\* C10: a request takes a symbol from the cache only while less than TTL
\* seconds have passed since the cached price arrived from its upstream (and
\* since the entry's timestamp), and a request arriving TTL or more after the
\* entry's timestamp opens a new upstream fetch for the symbol.
C10_NoStaleHit ==
  [][\A r \in Reqs : Arriving(r) =>
       \A t \in Range(rq'[r].req) :
         /\ t \notin Range(rq'[r].to_fetch) =>
              /\ HitOnArrival(r, t)
              /\ clock - got[t] < TTL
              /\ clock - CACHE[t].ts < TTL
         /\ (t \in DOMAIN CACHE /\ clock - CACHE[t].ts >= TTL) =>
              /\ rq'[r].pc = "yahoo"
              /\ rq'[r].fetches = <<"yahoo">>
              /\ t \in Range(rq'[r].to_fetch)]_vars

\* C10 witness: a batch that arrived a positive time after A's price was
\* obtained took A from the cache and is fetching only B.
C10_Witness ==
  \E r \in Reqs :
    /\ rq[r].pc = "yahoo" /\ IsBatch(r)
    /\ rq[r].to_fetch = <<"B">>
    /\ "A" \in DOMAIN rq[r].out /\ "A" \in DOMAIN got
    /\ rq[r].now - got["A"] > 0
    /\ rq[r].now - got["A"] < TTL

\* the cache keys whose entry this step creates or changes
Wrote == {t \in DOMAIN CACHE' : t \notin DOMAIN CACHE \/ CACHE'[t] # CACHE[t]}

\* What request r holds for symbol t after this step: its batch map when it
\* has returned, else its partial map.
HeldNext(r, t) ==
  IF rq'[r].pc = "done"
  THEN IF rq'[r].resp.code = 200 THEN Get(rq'[r].resp.body, t) ELSE None
  ELSE Get(rq'[r].out, t)

\* the symbols for which a provider returned a price to request r in this step
PricedNow(r) ==
  IF ~InFlight(r) THEN {}
  ELSE IF IsSingle(r)
  THEN IF rq'[r].pc = "done" /\ rq'[r].resp.code = 200 THEN {rq[r].req[1]}
       ELSE {}
  ELSE {t \in Pending(r) : HeldNext(r, t) # None}

\* the price request r reports for t after this step
PriceNext(r, t) == IF IsSingle(r) THEN rq'[r].resp.price ELSE HeldNext(r, t)[1]

\* C14: a step of a request writes the cache entries of exactly the symbols
\* a provider returned a price for in that step, stamped with the request's
\* arrival time; every other entry stays as it is, no entry is removed, and a
\* request ending in "Price unavailable" writes nothing.
C14_WriteOnlyOnSuccess ==
  [][\A r \in Reqs : rq'[r] # rq[r] =>
       /\ DOMAIN CACHE \subseteq DOMAIN CACHE'
       /\ Wrote \subseteq PricedNow(r)
       /\ \A t \in PricedNow(r) :
            /\ t \in DOMAIN CACHE'
            /\ CACHE'[t] = [price |-> PriceNext(r, t), ts |-> rq[r].now]
       /\ (rq'[r].pc = "done" /\ rq'[r].resp.code # 200) => CACHE' = CACHE]_vars

\* C14 witness: a batch for A and B has returned with a price for A only; A's
\* entry is stamped with the batch's arrival time and B's older entry is as the
\* earlier request left it.
C14_Witness ==
  \E r \in Reqs :
    /\ rq[r].pc = "done" /\ IsBatch(r) /\ rq[r].resp.code = 200
    /\ rq[r].req = <<"A", "B">>
    /\ rq[r].resp.body["A"] = <<1>> /\ rq[r].resp.body["B"] = None
    /\ DOMAIN CACHE = {"A", "B"}
    /\ CACHE["A"].ts = TTL /\ CACHE["B"].ts = 0

\* C17: the timestamp of a cached symbol never decreases when a write
\* replaces its entry (stated for entries with usable, positive prices).
C17_TimestampMonotone ==
  [][\A t \in DOMAIN CACHE :
       (CACHE[t].price > 0 /\ CACHE'[t].price > 0) =>
         CACHE'[t].ts >= CACHE[t].ts]_vars

\* C18: a step of a request writes cache keys only for symbols the request
\* asked for, and the map a batch returns has exactly the requested symbols
\* as keys, whatever else the upstream replies carry.
C18_UnrequestedIgnored ==
  [][\A r \in Reqs : rq'[r] # rq[r] =>
       /\ Wrote \subseteq Range(rq'[r].req)
       /\ (rq'[r].pc = "done" /\ rq'[r].kind = "batch"
             /\ rq'[r].resp.code = 200) =>
            DOMAIN rq'[r].resp.body = Range(rq'[r].req)]_vars

\* C18 witness: a batch for A alone has returned A's price after Yahoo's
\* reply also carried a price for B; the cache holds A only.
C18_Witness ==
  \E r \in Reqs :
    /\ rq[r].pc = "done" /\ IsBatch(r) /\ rq[r].extra
    /\ rq[r].req = <<"A">>
    /\ rq[r].resp = [code |-> 200, body |-> [t \in {"A"} |-> <<1>>]]
    /\ DOMAIN CACHE = {"A"}

\* every piece of the symbols query is empty or whitespace
Blank(tokens) == \A i \in 1..Len(tokens) : Strip(tokens[i]) = ""

\* C19: a batch request whose symbols are empty or all blank is answered
\* with a 400 in the step it arrives, without a fetch and without a cache
\* change.
C19_BlankRejected ==
  [][\A r \in Reqs : Arriving(r) =>
       \A tokens \in SeqsOf(RawTokens, 1, MaxBatch) :
         (Blank(tokens) /\ batch_quotes(r, tokens)) =>
           /\ rq'[r].pc = "done"
           /\ rq'[r].resp.code = 400
           /\ rq'[r].fetches = <<>>
           /\ CACHE' = CACHE]_vars

\* C19 witness: with a price in the cache, a batch of blank entries only has
\* been rejected.
C19_Witness ==
  \E r \in Reqs :
    /\ rq[r].pc = "done" /\ IsBatch(r)
    /\ rq[r].resp = [code |-> 400, detail |-> "no valid symbols"]
    /\ rq[r].fetches = <<>>
    /\ CACHE # EmptyDict

\* ------------------------------------------------------------- one fetch
\* One invocation of yahoo_fetch or stooq_fetch followed reply by reply: fx
\* holds its arguments, the attempt index, the HTTP calls sent so far, the
\* time slept so far (tenths of a second), the last reply and the result.
FetchSymbols == {"A", "B", "A.US"}
Providers == {"yahoo", "stooq"}
NoReply == [kind |-> "none", status |-> 0, shaped |-> FALSE, items |-> <<>>]

FetchInit ==
  /\ clock = 0
  /\ CACHE = EmptyDict
  /\ got = EmptyDict
  /\ rq = [r \in Reqs |-> Idle]
  /\ fx \in [pc : {"call"}, provider : Providers,
             symbols : SeqsOf(FetchSymbols, 1, MaxBatch), attempt : {0},
             calls : {1}, slept : {0}, last : {NoReply}, out : {EmptyDict}]

\* The awaited client.get of yahoo_fetch answers with reply.
FetchYahoo(reply) ==
  /\ fx.pc = "call" /\ fx.provider = "yahoo"
  /\ LET step == YahooStep(fx.symbols, fx.attempt, reply)
     IN fx' = CASE step.tag = "raise" ->
                     [fx EXCEPT !.pc = "raised", !.last = reply]
                [] step.tag = "retry" ->
                     [fx EXCEPT !.attempt = @ + 1, !.calls = @ + 1,
                                !.slept = @ + step.sleep, !.last = reply]
                [] OTHER ->
                     [fx EXCEPT !.pc = "returned", !.out = step.out,
                                !.slept = @ + step.sleep, !.last = reply]
  /\ UNCHANGED <<clock, CACHE, got, rq>>

\* The awaited client.get of stooq_fetch answers with reply.
FetchStooq(reply) ==
  /\ fx.pc = "call" /\ fx.provider = "stooq"
  /\ fx' = [fx EXCEPT !.pc = "returned", !.out = StooqOut(fx.symbols, reply),
                      !.last = reply]
  /\ UNCHANGED <<clock, CACHE, got, rq>>

FetchNext ==
  \/ \E reply \in YahooReplies : FetchYahoo(reply)
  \/ \E reply \in StooqReplies : FetchStooq(reply)

FetchSpec == FetchInit /\ [][FetchNext]_vars

\* the last reply was an over-capacity or server-error status
LastRetryable == fx.last.kind = "status" /\ fx.last.status \in RETRYABLE

\* the last reply was a status that is neither 200 nor retryable
LastFatal ==
  fx.last.kind = "status" /\ fx.last.status \notin (RETRYABLE \cup {200})

NoPrices == \A x \in Range(fx.symbols) : Get(fx.out, x) = None

\* C11: a provider invocation sends at most 4 HTTP calls, and one that ends
\* on a retryable status has sent all 4 and reports no price for any
\* requested symbol.
C11_AttemptCeiling ==
  /\ fx.calls <= MaxAttempts
  /\ fx.pc = "call" => fx.calls = fx.attempt + 1
  /\ (fx.provider = "yahoo" /\ fx.pc = "returned" /\ LastRetryable) =>
       fx.calls = MaxAttempts /\ NoPrices

\* C11 witness: yahoo_fetch has returned after four rate-limited replies.
C11_Witness ==
  /\ fx.provider = "yahoo" /\ fx.pc = "returned"
  /\ fx.calls = MaxAttempts /\ fx.last.status = 429
  /\ fx.symbols = <<"A", "B">> /\ NoPrices

\* C12: for either provider, a retryable status on an attempt below the
\* ceiling is followed by another attempt at that provider.
C12_UniformRetry ==
  (fx.pc # "call" /\ LastRetryable) => fx.calls = MaxAttempts

\* C13: a reply with a fatal status ends the invocation at once: no further
\* HTTP call, no sleep, and no price reported.
C13_FatalFailsFast ==
  [][(fx' # fx /\ fx'.last.kind = "status"
        /\ fx'.last.status \notin (RETRYABLE \cup {200})) =>
       /\ fx'.pc = "returned"
       /\ fx'.calls = fx.calls
       /\ fx'.slept = fx.slept
       /\ \A x \in Range(fx.symbols) : Get(fx'.out, x) = None]_vars

\* C13 witness: yahoo_fetch returned on a 404 received at its third attempt,
\* having slept only for the two retryable replies before it.
C13_Witness ==
  /\ fx.provider = "yahoo" /\ fx.pc = "returned" /\ LastFatal
  /\ fx.calls = 3 /\ fx.slept = 18

\* the entries of the last reply that name requested symbol x
EntriesFor(x) ==
  {i \in 1..Len(fx.last.items) : Upper(fx.last.items[i].symbol) = x}

\* C15: when Yahoo's 200 reply holds entries for requested symbols only and
\* exactly one entry for x, with a valid price, yahoo_fetch hands that price
\* to the batch for x, whatever the other entries are and wherever they stand.
C15_SymbolsIndependent ==
  (/\ fx.provider = "yahoo" /\ fx.pc = "returned"
   /\ fx.last.status = 200 /\ fx.last.shaped
   /\ \A i \in 1..Len(fx.last.items) :
        Upper(fx.last.items[i].symbol) \in Range(fx.symbols))
  => \A x \in Range(fx.symbols) :
       \A i \in EntriesFor(x) :
         (/\ EntriesFor(x) = {i}
          /\ fx.last.items[i].kind = "num"
          /\ fx.last.items[i].val > 0)
         => Get(fx.out, x) = <<fx.last.items[i].val>>

\* the requested symbols a Stooq row with symbol k is mapped back to
MappedBack(k) ==
  {x \in Range(fx.symbols) : Upper(to_stooq_symbol(x)) = Upper(k)}

\* C16: distinct requested symbols are sent to Stooq as distinct symbols, so
\* no row of the reply is reported under two requested symbols.
C16_NormalisationReversible ==
  (fx.provider = "stooq" /\ fx.pc = "returned"
     /\ fx.last.status = 200 /\ fx.last.shaped)
  => \A i \in 1..Len(fx.last.items) :
       Cardinality(MappedBack(fx.last.items[i].Symbol)) <= 1


\* ------------------------------------------------------------- one symbol,
\* stock_quote and batch_quotes side by side
\* Request 1 is stock_quote(ticker); its upstream outcomes are written on a
\* tape.  Then the cache is put back as it was and request 2 is
\* batch_quotes(ticker) at the same time, reading its upstream outcomes from
\* the tape.
PairStamps == {0, TickStep}
PairClocks == {0, TickStep, TTL, TTL + TickStep}

\* the caches the run starts from: any symbols, priced and stamped by
\* earlier requests
PairCaches ==
  UNION {[D -> [price : PriceVals, ts : PairStamps]] : D \in SUBSET Symbols}

PairInit ==
  /\ clock \in PairClocks
  /\ CACHE \in PairCaches
  /\ \A t \in DOMAIN CACHE : CACHE[t].ts <= clock
  /\ got = [t \in DOMAIN CACHE |-> CACHE[t].ts]
  /\ rq = [r \in Reqs |-> Idle]
  /\ fx \in [pc : {"single"}, ticker : RawTickers, cache0 : {CACHE},
             got0 : {got}, cache1 : {EmptyDict}, tape : {<<>>}]

\* GET /api/stock/{ticker}
PairSingle ==
  /\ fx.pc = "single"
  /\ stock_quote(1, fx.ticker)

\* an attempt of yahoo_fetch ends for stock_quote and goes on the tape
PairSingleYahoo ==
  /\ fx.pc = "single" /\ rq[1].pc = "yahoo"
  /\ \E step \in YahooSteps[<<rq[1].to_fetch, rq[1].attempt>>] :
       /\ YahooReplyStep(1, step)
       /\ fx' = [fx EXCEPT !.tape =
                   Append(@, [provider |-> "yahoo", symbols |-> rq[1].to_fetch,
                              attempt |-> rq[1].attempt, step |-> step])]
  /\ UNCHANGED clock

\* stooq_fetch returns to stock_quote and its result goes on the tape
PairSingleStooq ==
  /\ fx.pc = "single" /\ rq[1].pc = "stooq"
  /\ \E s \in StooqOuts[rq[1].still] :
       /\ StooqReplyOut(1, s)
       /\ fx' = [fx EXCEPT !.tape =
                   Append(@, [provider |-> "stooq", symbols |-> rq[1].still,
                              attempt |-> 0,
                              step |-> [tag |-> "return", out |-> s,
                                        sleep |-> 0]])]
  /\ UNCHANGED clock

\* stock_quote has answered: keep its cache and start over from the first one
PairRewind ==
  /\ fx.pc = "single" /\ rq[1].pc = "done"
  /\ fx' = [fx EXCEPT !.pc = "batch", !.cache1 = CACHE]
  /\ CACHE' = fx.cache0
  /\ got' = fx.got0
  /\ UNCHANGED <<clock, rq>>

\* GET /api/quotes?symbols={ticker}
PairBatch ==
  /\ fx.pc = "batch"
  /\ batch_quotes(2, <<fx.ticker>>)

\* batch_quotes gets from Yahoo what stock_quote got
PairBatchYahoo ==
  /\ fx.pc = "batch" /\ rq[2].pc = "yahoo"
  /\ fx.tape # <<>> /\ Head(fx.tape).provider = "yahoo"
  /\ YahooReplyStep(2, Head(fx.tape).step)
  /\ fx' = [fx EXCEPT !.tape = Tail(@)]
  /\ UNCHANGED clock

\* batch_quotes gets from Stooq what stock_quote got
PairBatchStooq ==
  /\ fx.pc = "batch" /\ rq[2].pc = "stooq"
  /\ fx.tape # <<>> /\ Head(fx.tape).provider = "stooq"
  /\ StooqReplyOut(2, Head(fx.tape).step.out)
  /\ fx' = [fx EXCEPT !.tape = Tail(@)]
  /\ UNCHANGED clock

PairNext ==
  \/ PairSingle
  \/ PairSingleYahoo
  \/ PairSingleStooq
  \/ PairRewind
  \/ PairBatch
  \/ PairBatchYahoo
  \/ PairBatchStooq

PairSpec == PairInit /\ [][PairNext]_vars

\* the batch answer b says what the single-symbol answer s says about t
SameAnswer(s, b, t) ==
  CASE s.code = 200 ->
         b.code = 200 /\ DOMAIN b.body = {t} /\ b.body[t] = <<s.price>>
    [] s.code = 502 ->
         b.code = 200 /\ DOMAIN b.body = {t} /\ b.body[t] = None
    [] OTHER -> b = s

\* C20: from the same cache at the same time and with the same upstream
\* outcomes, batch_quotes of one symbol waits for the same provider call with
\* the same symbols at every point where stock_quote did, and when it has
\* answered it has made the same fetches, left the same cache and reports the
\* same price, with null where stock_quote raised "Price unavailable".
C20_BatchOfOneIsSingle ==
  fx.pc = "batch" =>
    /\ rq[2].pc \in {"yahoo", "stooq"} =>
         /\ fx.tape # <<>>
         /\ Head(fx.tape).provider = rq[2].pc
         /\ rq[2].pc = "yahoo" => Head(fx.tape).attempt = rq[2].attempt
         /\ Head(fx.tape).symbols =
              IF rq[2].pc = "yahoo" THEN rq[2].to_fetch ELSE rq[2].still
    /\ rq[2].pc = "done" =>
         /\ fx.tape = <<>>
         /\ rq[2].fetches = rq[1].fetches
         /\ CACHE = fx.cache1
         /\ SameAnswer(rq[1].resp, rq[2].resp, rq[1].req[1])

\* C20 witness: starting from a cache with a stale entry, both requests went
\* to Yahoo and then Stooq; stock_quote raised "Price unavailable" and
\* batch_quotes has answered null.
C20_Witness ==
  /\ fx.pc = "batch" /\ rq[2].pc = "done"
  /\ rq[1].req = <<"A">> /\ rq[1].resp.code = 502
  /\ rq[2].fetches = <<"yahoo", "stooq">>
  /\ rq[2].resp.code = 200 /\ rq[2].resp.body["A"] = None
  /\ "A" \in DOMAIN fx.cache0

====
